---- MODULE Spec2Model ----
(***************************************************************************)
(* Room/guess reconciliation of the Tomb Secrets front-end: the provider's *)
(* room state (currentRoomId, roomGuesses, roomData), the ResultComputed   *)
(* handler registered with the contract event handler, with its getProbe   *)
(* read in flight, and the game screen's optimistic guess submission with  *)
(* its rollback.                                                           *)
(***************************************************************************)
EXTENDS Integers, Sequences, FiniteSets, Bags, TLC

\* ------------------------------------------------------------------ bounds
MaxTurn == 2           \* turn indices 0..MaxTurn-1 are played
MaxInFlight == 2       \* handleResultComputed calls awaiting getProbe at once

\* ------------------------------------------------------- program constants
maxAttempts == 30

Rooms == {1, 2}        \* the room ids that exist on chain
Turns == 0..(MaxTurn - 1)
NoRoom == 0            \* currentRoomId === null
Undefined == [undefined |-> TRUE]   \* undefined / null

\* --------------------------------------------------------------- the chain
\* What the contract holds for probe (room, turn): the guess digits returned
\* by getProbe (uint8[4]) and the counts carried by its ResultComputed log.
ChainGuess(r, t) == <<r, t + 4, 8, 9>>
ChainBreaches(r, t) == r - 1
ChainSignals(r, t) == t + 1
PlayerAddress == "player"      \* subAccount.address
ChainCreator(r) == IF r = 1 THEN PlayerAddress ELSE "opponent"

\* digit.toString() of a uint8 digit
DigitStr == <<"0", "1", "2", "3", "4", "5", "6", "7", "8", "9">>
toString(d) == DigitStr[d + 1]

\* The digit pads a player can have filled in when pressing submit
\* ("" is an empty slot).
DigitChoices == { <<"5", "6", "7", "8">>, <<"5", "6", "7", "">> }

\* ------------------------------------------------------------------- state
VARIABLES
  currentRoomId,   \* provider state: string | null
  roomGuesses,     \* provider state: Guess[]
  roomData,        \* provider state: RoomMetadata | null
  handlers,        \* eventHandler.handlers: the currentRoomId their closures hold
  probeReads,      \* handleResultComputed calls awaiting getProbe (a bag)
  isSubmitting,    \* game screen state
  submission,      \* the handleSubmit call in flight, if any
  toastTitle       \* title of the toast the last step showed, if any

\* the event handler singleton (contract event poller)
VARIABLES
  isListening,     \* eventHandler.isListening
  pollInterval,    \* eventHandler.pollInterval: a timer id or NoTimer
  timers,          \* the interval timers setInterval created and nothing cleared
  due,             \* timers with a callback queued by the event loop
  cycles,          \* checkForNewEvents calls in flight, by the query awaited
  warnings         \* console.warn calls made by the poller so far

\* one receipt wait of createRoom, joinRoom or submitGuess
VARIABLES
  receiptWait      \* the locals of the loop: attempts, receipt, where it stands

\* the contract's rooms and the getRoom reads of loadRoomData
VARIABLES
  chainPhase,      \* phase of each room on chain
  roomLoads        \* loadRoomData calls awaiting getRoom, with what it returns

\* the input state of the game screen and the create-room page
VARIABLES
  selected,        \* GameScreen selectedDigits
  vaultCode,       \* CreateRoom vaultCode
  wager,           \* CreateRoom wager
  createRoomCall   \* the createRoom call handleCreateRoom has in flight

\* the invitation link and the join page
VARIABLES
  inviteLink,      \* the text copyInvitationLink wrote to the clipboard
  invitedRoom,     \* the room id of the game screen that wrote it
  joinRoomId,      \* JoinRoom roomId (the room id input field)
  joinOpen         \* the JoinRoom page is the page shown

\* the wallet session of the provider
VARIABLES
  connected,           \* connected
  subAccount,          \* subAccount: NoAccount for null
  universalAddress,    \* universalAddress
  balance,             \* balance
  isListeningToEvents, \* isListeningToEvents
  isProviderReady,     \* isProviderReady; provider and contract are set with it
  walletAuthorized,    \* the wallet answers eth_accounts with the account
  sessionCalls,        \* wallet requests awaiting their answer
  disconnected         \* disconnectWallet ran and connectWallet has not since

\* the chain's blocks and the poll cycles that query them
VARIABLES
  latestBlock,     \* the number of the newest block
  logs,            \* the blocks that hold a log of the contract
  polls,           \* checkForNewEvents calls in flight, with their locals
  dispatchedLogs,  \* the blocks whose log has been handed to processEvent
  lastDispatch     \* what the last step handed to processEvent, if it ended a cycle

\* the join page's check of the room id field
VARIABLES
  roomValidation,  \* roomValidation: isValid, isChecking, error ("" for none)
  joinRoomData,    \* JoinRoom's roomData: null or the room the check stored
  timeoutId,       \* the debounce timeout awaiting its delay, with its roomId
  validityChecks   \* checkRoomValidity calls awaiting getRoom, by roomIdToCheck

gameVars == <<currentRoomId, roomGuesses, roomData, handlers, probeReads,
              isSubmitting, submission, toastTitle>>
pollerVars == <<isListening, pollInterval, timers, due, cycles, warnings>>
receiptVars == <<receiptWait>>
chainVars == <<chainPhase, roomLoads>>
inputVars == <<selected, vaultCode, wager, createRoomCall>>
inviteVars == <<inviteLink, invitedRoom, joinRoomId, joinOpen>>

sessionVars == <<connected, subAccount, universalAddress, balance,
                 isListeningToEvents, isProviderReady, walletAuthorized,
                 sessionCalls, disconnected>>
windowVars == <<latestBlock, logs, polls, dispatchedLogs, lastDispatch>>
joinVars == <<roomValidation, joinRoomData, timeoutId, validityChecks>>
extraVars == <<sessionVars, windowVars, joinVars>>

vars == <<gameVars, pollerVars, receiptVars, chainVars, inputVars, inviteVars, extraVars>>

\* what the steps of the provider's room state and the game screen leave alone
beyondGame == <<pollerVars, receiptVars, chainVars, inputVars, inviteVars, extraVars>>

\* ------------------------------------------------------ the guess list
\* A Guess is a record; the optional fields (result, pending) are present
\* or absent as in the object literal that built it.  timestamp and txHash
\* are left out: nothing reads them.
Has(g, k) == k \in DOMAIN g
HasResult(g) == Has(g, "result") /\ g.result # Undefined
IsPending(g) == Has(g, "pending") /\ g.pending = TRUE

\* prev.find((g) => g.turnIndex === t) !== undefined
Existing(prev, t) == \E i \in 1..Len(prev) : prev[i].turnIndex = t
Find(prev, t) ==
  prev[CHOOSE i \in 1..Len(prev) :
         /\ prev[i].turnIndex = t
         /\ \A j \in 1..(i - 1) : prev[j].turnIndex # t]

\* { ...g, ...guess }: every key of either, the later object winning
Spread(g, guess) ==
  [k \in DOMAIN g \cup DOMAIN guess |->
     IF k \in DOMAIN guess THEN guess[k] ELSE g[k]]

\* prev.map((g) => g.turnIndex === t ? f(g) : g)
MapAt(prev, t, patch) ==
  [i \in 1..Len(prev) |->
     IF prev[i].turnIndex = t THEN Spread(prev[i], patch) ELSE prev[i]]

\* addGuess without the lookup of an existing entry
addGuessAppends(prev, guess) == Append(prev, guess)

\* addGuess that puts the new guess in place of an existing entry
addGuessReplaces(prev, guess) ==
  IF Existing(prev, guess.turnIndex)
  THEN [i \in 1..Len(prev) |->
          IF prev[i].turnIndex = guess.turnIndex THEN guess ELSE prev[i]]
  ELSE Append(prev, guess)

\* the updater passed to setRoomGuesses by addGuess
addGuess(prev, guess) ==
  IF Existing(prev, guess.turnIndex)
  THEN MapAt(prev, guess.turnIndex, guess)
  ELSE Append(prev, guess)

\* removeGuess that leaves the list as it is
removeGuessKeeps(prev, turnIndex) == prev

\* the updater passed to setRoomGuesses by removeGuess
removeGuess(prev, turnIndex) ==
  SelectSeq(prev, LAMBDA g : g.turnIndex # turnIndex)

\* event.signedResult ? { breached, injured } : undefined
ResultOf(event) ==
  IF event.signedResult # Undefined
  THEN [breached |-> event.signedResult.breaches,
        injured |-> event.signedResult.signals]
  ELSE Undefined

\* mergeResultFetched without the lookup of an existing entry
mergeResultFetchedAppends(prev, event, guessDigits) ==
  Append(prev, [turnIndex |-> event.turnIndex, digits |-> guessDigits,
                pending |-> FALSE, result |-> ResultOf(event)])

\* the updater of handleResultComputed after a successful getProbe read
mergeResultFetched(prev, event, guessDigits) ==
  IF Existing(prev, event.turnIndex)
  THEN MapAt(prev, event.turnIndex,
             [digits |-> guessDigits, result |-> ResultOf(event),
              pending |-> FALSE])
  ELSE Append(prev, [turnIndex |-> event.turnIndex, digits |-> guessDigits,
                     pending |-> FALSE, result |-> ResultOf(event)])

\* the updater of handleResultComputed when the getProbe read threw
mergeResultFallback(prev, event) ==
  IF Existing(prev, event.turnIndex)
  THEN MapAt(prev, event.turnIndex,
             [result |-> ResultOf(event), pending |-> FALSE])
  ELSE Append(prev, [turnIndex |-> event.turnIndex, digits |-> <<>>,
                     pending |-> FALSE, result |-> ResultOf(event)])

\* decoded[1].map((digit) => digit.toString())
guessDigitsOf(event) ==
  LET actualGuess == ChainGuess(event.roomId, event.turnIndex)
  IN  [i \in 1..Len(actualGuess) |-> toString(actualGuess[i])]

\* mergeResult on the list of the handler's render rather than on prev
mergeResultFromSnapshot(prev, event, fetched) ==
  IF fetched
  THEN mergeResultFetched(<<>>, event, guessDigitsOf(event))
  ELSE mergeResultFallback(<<>>, event)

\* the two ways one handleResultComputed call can update the list
mergeResult(prev, event, fetched) ==
  IF fetched
  THEN mergeResultFetched(prev, event, guessDigitsOf(event))
  ELSE mergeResultFallback(prev, event)

\* processEvent, case "ResultComputed": the decoded event handed to the
\* handler for the log of probe (r, t)
ResultComputedEvent(r, t) ==
  [roomId |-> r, turnIndex |-> t,
   signedResult |-> [breaches |-> ChainBreaches(r, t),
                     signals |-> ChainSignals(r, t)]]

Events == { ResultComputedEvent(r, t) : r \in Rooms, t \in Turns }

\* ------------------------------------------------------------------ Init
\* submission.pc is the place of handleSubmit: "idle" (none in flight),
\* "sending" (awaiting eth_sendTransaction) or "waiting" (in the receipt
\* loop).  While a call is in flight the record holds the currentTurnIndex
\* of its closure and, as history for the properties, whether the list
\* already held an entry at that index when the call began.
Idle == [pc |-> "idle"]

\* the initial values of each group of variables
NoTimer == 0
NoDigits == <<"", "", "", "">>
WAITING_FOR_JOIN == 0

InitGame ==
  /\ currentRoomId = NoRoom
  /\ roomGuesses = <<>>
  /\ roomData = Undefined
  /\ handlers = NoRoom
  /\ probeReads = EmptyBag
  /\ isSubmitting = FALSE
  /\ submission = Idle
  /\ toastTitle = ""

InitPoller ==
  /\ isListening = FALSE
  /\ pollInterval = NoTimer
  /\ timers = {}
  /\ due = {}
  /\ cycles = EmptyBag
  /\ warnings = 0

InitReceipt == receiptWait = [pc |-> "idle"]

InitChain ==
  /\ chainPhase = [r \in Rooms |-> WAITING_FOR_JOIN]
  /\ roomLoads = EmptyBag

InitInput ==
  /\ selected = NoDigits
  /\ vaultCode = NoDigits
  /\ wager = <<>>
  /\ createRoomCall = [called |-> FALSE]

InitInvite ==
  /\ inviteLink = <<>>
  /\ invitedRoom = <<>>
  /\ joinRoomId = <<>>
  /\ joinOpen = FALSE

NoAccount == 0
InitSession ==
  /\ connected = FALSE
  /\ subAccount = NoAccount
  /\ universalAddress = ""
  /\ balance = <<"0">>
  /\ isListeningToEvents = FALSE
  /\ isProviderReady = FALSE
  /\ walletAuthorized = FALSE
  /\ sessionCalls = EmptyBag
  /\ disconnected = FALSE

InitWindow ==
  /\ latestBlock = 0
  /\ logs = {}
  /\ polls = EmptyBag
  /\ dispatchedLogs = {}
  /\ lastDispatch = [done |-> FALSE, blocks |-> {}]

\* useState({ isValid: false, isChecking: false }), useState(null)
Unchecked == [isValid |-> FALSE, isChecking |-> FALSE, error |-> ""]
NoTimeout == [pending |-> FALSE, roomId |-> <<>>]
InitJoin ==
  /\ roomValidation = Unchecked
  /\ joinRoomData = [found |-> FALSE]
  /\ timeoutId = NoTimeout
  /\ validityChecks = EmptyBag

InitExtra ==
  /\ InitSession
  /\ InitWindow
  /\ InitJoin

Init ==
  /\ InitGame
  /\ InitPoller
  /\ InitReceipt
  /\ InitChain
  /\ InitInput
  /\ InitInvite
  /\ InitExtra

\* ------------------------------------------------- provider: room state
\* what setCurrentRoom leaves in roomGuesses
guessesAfterSetCurrentRoom(roomId, prev) ==
  IF roomId = NoRoom THEN <<>> ELSE prev

setCurrentRoom(roomId) ==
  /\ currentRoomId' = roomId
  /\ roomGuesses' = guessesAfterSetCurrentRoom(roomId, roomGuesses)
  /\ toastTitle' = ""
  /\ UNCHANGED beyondGame
  /\ UNCHANGED <<roomData, handlers, probeReads, isSubmitting, submission>>

\* getRoomWithProvider: the RoomMetadata decoded from getRoom(roomId)
getRoom(roomId) == [creator |-> ChainCreator(roomId)]

\* A loadRoomData(roomId) call resumes after its getRoom read:
\* setRoomData(data), or setRoomData(null) when the read threw.  The calls
\* in flight are not tracked: the game screen, handleRoomJoined and
\* handleResultComputed start one for the room they hold, and the read of
\* any room may still be outstanding.
loadRoomData(roomId, ok) ==
  /\ roomData' = IF ok THEN getRoom(roomId) ELSE Undefined
  /\ toastTitle' = ""
  /\ UNCHANGED beyondGame
  /\ UNCHANGED <<currentRoomId, roomGuesses, handlers, probeReads,
                 isSubmitting, submission>>

\* ---------------------------------------------- eventHandler singleton
\* The provider effect calls eventHandler.initialize(contract, handlers)
\* with the callbacks of the current render: handleResultComputed holds
\* the currentRoomId of that render until the effect initializes again.
initialize ==
  /\ handlers # currentRoomId
  /\ handlers' = currentRoomId
  /\ toastTitle' = ""
  /\ UNCHANGED beyondGame
  /\ UNCHANGED <<currentRoomId, roomGuesses, roomData, probeReads,
                 isSubmitting, submission>>

\* ------------------------------------------- provider: ResultComputed
\* the room check at the top of handleResultComputed, on the currentRoomId
\* of the handler's closure
acceptsEvent(event, closureRoomId) ==
  closureRoomId # NoRoom /\ event.roomId = closureRoomId

\* A poll cycle dispatches the ResultComputed log of probe (r, t):
\* processEvent decodes it and calls handlers.onResultComputed, which
\* checks the room id and then awaits the getProbe read.
processEvent(r, t) ==
  /\ LET event == ResultComputedEvent(r, t)
     IN  IF acceptsEvent(event, handlers)
         THEN /\ BagCardinality(probeReads) < MaxInFlight
              /\ probeReads' = probeReads (+) SetToBag({event})
         ELSE UNCHANGED probeReads
  /\ toastTitle' = ""
  /\ UNCHANGED beyondGame
  /\ UNCHANGED <<currentRoomId, roomGuesses, roomData, handlers,
                 isSubmitting, submission>>

\* handleResultComputed resumes after getProbe (fetched) or after the read
\* threw: the guess list is updated.
handleResultComputed(event, fetched) ==
  /\ BagIn(event, probeReads)
  /\ probeReads' = probeReads (-) SetToBag({event})
  /\ roomGuesses' = mergeResult(roomGuesses, event, fetched)
  /\ toastTitle' = ""
  /\ UNCHANGED beyondGame
  /\ UNCHANGED <<currentRoomId, roomData, handlers, isSubmitting,
                 submission>>

\* ----------------------------------------------------- the game screen
currentTurnIndex == Len(roomGuesses)
isPlayerCreator == roomData # Undefined /\ roomData.creator = PlayerAddress
isPlayerTurn ==
  IF isPlayerCreator THEN currentTurnIndex % 2 = 0
  ELSE currentTurnIndex % 2 = 1

\* the split of the list the screen shows as "mine" and "opponent's"
playerGuesses ==
  SelectSeq(roomGuesses,
            LAMBDA guess : IF isPlayerCreator THEN guess.turnIndex % 2 = 0
                           ELSE guess.turnIndex % 2 = 1)
opponentGuesses ==
  SelectSeq(roomGuesses,
            LAMBDA guess : IF isPlayerCreator THEN guess.turnIndex % 2 = 1
                           ELSE guess.turnIndex % 2 = 0)

isComplete(selectedDigits) ==
  \A i \in 1..Len(selectedDigits) : selectedDigits[i] # ""
canSubmit(selectedDigits) ==
  isComplete(selectedDigits) /\ ~isSubmitting /\ isPlayerTurn

\* new Set(selectedDigits).size
SetSize(selectedDigits) ==
  Cardinality({ selectedDigits[i] : i \in 1..Len(selectedDigits) })

\* the optimistic entry handleSubmit builds
newGuess(turnIndex, selectedDigits) ==
  [turnIndex |-> turnIndex, digits |-> selectedDigits, pending |-> TRUE]

\* handleSubmit up to its await: the button or the Enter key starts it when
\* canSubmit holds; the screen shows the room of its route, currentRoomId.
handleSubmit(selectedDigits) ==
  /\ canSubmit(selectedDigits)
  /\ submission.pc = "idle"
  /\ currentTurnIndex \in Turns
  /\ IF \E i \in 1..Len(selectedDigits) : selectedDigits[i] = ""
     THEN /\ toastTitle' = "Incomplete guess"
          /\ UNCHANGED <<roomGuesses, isSubmitting, submission>>
     ELSE IF SetSize(selectedDigits) # 4
     THEN /\ toastTitle' = "Invalid guess"
          /\ UNCHANGED <<roomGuesses, isSubmitting, submission>>
     ELSE IF currentRoomId = NoRoom
     THEN /\ toastTitle' = ""
          /\ UNCHANGED <<roomGuesses, isSubmitting, submission>>
     ELSE /\ isSubmitting' = TRUE
          /\ roomGuesses' =
               addGuess(roomGuesses, newGuess(currentTurnIndex, selectedDigits))
          /\ submission' =
               [pc |-> "sending", turnIndex |-> currentTurnIndex,
                existed |-> Existing(roomGuesses, currentTurnIndex)]
          /\ toastTitle' = ""
  /\ UNCHANGED beyondGame
  /\ UNCHANGED <<currentRoomId, roomData, handlers, probeReads>>

\* what the catch block of handleSubmit leaves in roomGuesses
guessesAfterCatch(prev, turnIndex) == removeGuess(prev, turnIndex)

\* the toast of the catch block of handleSubmit
catchToast == "Submission failed"

\* the catch and finally blocks of handleSubmit
handleSubmitCatch ==
  /\ toastTitle' = catchToast
  /\ roomGuesses' = guessesAfterCatch(roomGuesses, submission.turnIndex)
  /\ isSubmitting' = FALSE
  /\ submission' = Idle

\* submitGuess throws before a transaction hash exists: the wallet is not
\* ready or eth_sendTransaction is rejected
submitGuessRejected ==
  /\ submission.pc = "sending"
  /\ handleSubmitCatch
  /\ UNCHANGED beyondGame
  /\ UNCHANGED <<currentRoomId, roomData, handlers, probeReads>>

\* eth_sendTransaction returned the hash; the receipt wait begins
submitGuessSent ==
  /\ submission.pc = "sending"
  /\ submission' = [submission EXCEPT !.pc = "waiting"]
  /\ toastTitle' = ""
  /\ UNCHANGED beyondGame
  /\ UNCHANGED <<currentRoomId, roomGuesses, roomData, handlers, probeReads,
                 isSubmitting>>

\* The receipt loop of submitGuess, when the receipt first exists at query
\* number availableAt (counted from 0): the queries made and whether a
\* receipt was found.
RECURSIVE receiptLoop(_, _)
receiptLoop(attempts, availableAt) ==
  IF attempts < maxAttempts
  THEN IF attempts >= availableAt
       THEN [receipt |-> TRUE, queries |-> attempts + 1]
       ELSE receiptLoop(attempts + 1, availableAt)
  ELSE [receipt |-> FALSE, queries |-> attempts]

\* when the receipt of a sent transaction can first exist: at once, at the
\* last query of the loop, or not within the loop
ReceiptTimes == {0, maxAttempts - 1, maxAttempts}

\* the receipt wait ends: submitGuess returns the hash and handleSubmit
\* completes, or submitGuess throws "Transaction receipt not found after
\* timeout"
submitGuessWaited(availableAt) ==
  /\ submission.pc = "waiting"
  /\ IF receiptLoop(0, availableAt).receipt
     THEN /\ toastTitle' = "Excavation launched!"
          /\ isSubmitting' = FALSE
          /\ submission' = Idle
          /\ UNCHANGED roomGuesses
     ELSE handleSubmitCatch
  /\ UNCHANGED beyondGame
  /\ UNCHANGED <<currentRoomId, roomData, handlers, probeReads>>

\* ------------------------------------------------------------------ Next
Next ==
  \/ \E roomId \in Rooms \cup {NoRoom} : setCurrentRoom(roomId)
  \/ \E roomId \in Rooms, ok \in BOOLEAN : loadRoomData(roomId, ok)
  \/ initialize
  \/ \E r \in Rooms, t \in Turns : processEvent(r, t)
  \/ \E event \in Events, fetched \in BOOLEAN :
       handleResultComputed(event, fetched)
  \/ \E selectedDigits \in DigitChoices : handleSubmit(selectedDigits)
  \/ submitGuessRejected
  \/ submitGuessSent
  \/ \E availableAt \in ReceiptTimes : submitGuessWaited(availableAt)

Spec == Init /\ [][Next]_vars

\* ------------------------------------- eventHandler: the event poller
\* SpecPoller: the singleton's listening flag and polling timer, driven by
\* initialize and stopListening calls, timer ticks and the RPC queries of
\* checkForNewEvents.  setInterval is modelled loosely on one point: a
\* callback the event loop had queued when clearInterval ran can still be
\* delivered, the case the flag check at the top of the callback is there
\* for.
MaxTimers == 2         \* timer ids in use at once (live or with a queued callback)
MaxCycles == 2         \* checkForNewEvents calls in flight at once
MaxWarnings == 2       \* console.warn calls counted

TimerIds == 1..MaxTimers
beyondPoller == <<gameVars, receiptVars, chainVars, inputVars, inviteVars, extraVars>>

\* setInterval: the id of the timer it creates
newTimer == CHOOSE id \in TimerIds :
              /\ id \notin timers \cup due
              /\ \A other \in TimerIds : other < id => other \in timers \cup due

\* startListening without the check of the flag
startListeningAgain ==
  /\ isListening' = TRUE
  /\ timers' = timers \cup {newTimer}
  /\ pollInterval' = newTimer

\* startListening and the startPolling it calls (the contract is set)
startListening ==
  IF isListening
  THEN UNCHANGED <<isListening, pollInterval, timers>>
  ELSE /\ isListening' = TRUE
       /\ timers' = timers \cup {newTimer}
       /\ pollInterval' = newTimer

\* initialize(contract, handlers): contract and handlers are stored and
\* startListening is called
eventHandler_initialize ==
  /\ timers \cup due # TimerIds
  /\ startListening
  /\ UNCHANGED <<due, cycles, warnings>>
  /\ UNCHANGED beyondPoller

\* stopListening that leaves the interval running
stopListeningKeepsTimer ==
  /\ IF ~isListening
     THEN UNCHANGED <<isListening, pollInterval, timers>>
     ELSE /\ UNCHANGED <<pollInterval, timers>>
          /\ isListening' = FALSE
  /\ UNCHANGED <<due, cycles, warnings>>
  /\ UNCHANGED beyondPoller

stopListening ==
  /\ IF ~isListening
     THEN UNCHANGED <<isListening, pollInterval, timers>>
     ELSE /\ IF pollInterval # NoTimer
             THEN /\ timers' = timers \ {pollInterval}
                  /\ pollInterval' = NoTimer
             ELSE UNCHANGED <<pollInterval, timers>>
          /\ isListening' = FALSE
  /\ UNCHANGED <<due, cycles, warnings>>
  /\ UNCHANGED beyondPoller

\* 2000 ms have passed for a live timer: the event loop queues its callback
timerTick(id) ==
  /\ id \in timers
  /\ id \notin due
  /\ due' = due \cup {id}
  /\ UNCHANGED <<isListening, pollInterval, timers, cycles, warnings>>
  /\ UNCHANGED beyondPoller

\* the callback startPolling passed to setInterval, up to its await
pollCallback(id) ==
  /\ id \in due
  /\ due' = due \ {id}
  /\ IF ~isListening
     THEN /\ timers' = timers \ {id}
          /\ UNCHANGED cycles
     ELSE /\ BagCardinality(cycles) < MaxCycles
          /\ cycles' = cycles (+) SetToBag({"getBlockNumber"})
          /\ UNCHANGED timers
  /\ UNCHANGED <<isListening, pollInterval, warnings>>
  /\ UNCHANGED beyondPoller

\* checkForNewEvents resumes after getBlockNumber: it goes on to
\* queryFilter, or its catch logs the error and the call returns
cycleBlockNumber(ok) ==
  /\ BagIn("getBlockNumber", cycles)
  /\ IF ok
     THEN /\ cycles' = (cycles (-) SetToBag({"getBlockNumber"}))
                         (+) SetToBag({"queryFilter"})
          /\ UNCHANGED warnings
     ELSE /\ warnings < MaxWarnings
          /\ cycles' = cycles (-) SetToBag({"getBlockNumber"})
          /\ warnings' = warnings + 1
  /\ UNCHANGED <<isListening, pollInterval, timers, due>>
  /\ UNCHANGED beyondPoller

\* checkForNewEvents whose catch block stops the poller
cycleQueryFilterStops(ok) ==
  /\ BagIn("queryFilter", cycles)
  /\ cycles' = cycles (-) SetToBag({"queryFilter"})
  /\ IF ok
     THEN UNCHANGED <<warnings, isListening, pollInterval, timers>>
     ELSE /\ warnings < MaxWarnings
          /\ warnings' = warnings + 1
          /\ isListening' = FALSE
          /\ timers' = timers \ {pollInterval}
          /\ pollInterval' = NoTimer
  /\ UNCHANGED due
  /\ UNCHANGED beyondPoller

\* checkForNewEvents resumes after queryFilter: the logs are dispatched
\* and the call returns, or its catch logs the error and the call returns
cycleQueryFilter(ok) ==
  /\ BagIn("queryFilter", cycles)
  /\ cycles' = cycles (-) SetToBag({"queryFilter"})
  /\ IF ok
     THEN UNCHANGED warnings
     ELSE /\ warnings < MaxWarnings
          /\ warnings' = warnings + 1
  /\ UNCHANGED <<isListening, pollInterval, timers, due>>
  /\ UNCHANGED beyondPoller

NextPoller ==
  \/ eventHandler_initialize
  \/ stopListening
  \/ \E id \in TimerIds : timerTick(id)
  \/ \E id \in TimerIds : pollCallback(id)
  \/ \E ok \in BOOLEAN : cycleBlockNumber(ok)
  \/ \E ok \in BOOLEAN : cycleQueryFilter(ok)

SpecPoller == Init /\ [][NextPoller]_vars

\* ------------------------------------------- provider: the receipt wait
\* SpecReceipt: the loop "while (attempts < maxAttempts)" that createRoom,
\* joinRoom and submitGuess run after eth_sendTransaction, one await at a
\* step.  queries counts the eth_getTransactionReceipt requests answered.
ReceiptWaiters == {"createRoom", "joinRoom", "submitGuess"}
ReceiptAnswers == {"receipt", "null", "throws"}
beyondReceipt == <<gameVars, pollerVars, chainVars, inputVars, inviteVars, extraVars>>

\* let attempts = 0; the loop condition is tested and the first request made
receiptWaitBegin(fn) ==
  /\ receiptWait.pc = "idle"
  /\ receiptWait' = [pc |-> IF 0 < maxAttempts THEN "request" ELSE "timeout",
                     fn |-> fn, attempts |-> 0, receipt |-> FALSE,
                     queries |-> 0]
  /\ UNCHANGED beyondReceipt

\* await provider.request(eth_getTransactionReceipt) resumes;
\* "if (receipt) break", else the 1000 ms sleep begins
receiptRequest(answer) ==
  /\ receiptWait.pc = "request"
  /\ receiptWait' =
       [receiptWait EXCEPT
          !.queries = @ + 1,
          !.receipt = (answer = "receipt"),
          !.pc = CASE answer = "receipt" -> "returned"
                   [] answer = "null" -> "sleep"
                   [] OTHER -> "threw"]
  /\ UNCHANGED beyondReceipt

\* the sleep of a loop that tests "attempts <= maxAttempts"
receiptSleepOneMore ==
  /\ receiptWait.pc = "sleep"
  /\ receiptWait' =
       [receiptWait EXCEPT
          !.attempts = @ + 1,
          !.pc = IF receiptWait.attempts + 1 <= maxAttempts
                 THEN "request" ELSE "timeout"]
  /\ UNCHANGED beyondReceipt

\* the sleep resumes: attempts++, the loop condition is tested again, and
\* after the loop "if (!receipt) throw new Error(... after timeout)"
receiptSleep ==
  /\ receiptWait.pc = "sleep"
  /\ receiptWait' =
       [receiptWait EXCEPT
          !.attempts = @ + 1,
          !.pc = IF receiptWait.attempts + 1 < maxAttempts
                 THEN "request" ELSE "timeout"]
  /\ UNCHANGED beyondReceipt

\* the function returns or throws; a later call can begin
receiptWaitEnd ==
  /\ receiptWait.pc \in {"returned", "timeout", "threw"}
  /\ receiptWait' = [pc |-> "idle"]
  /\ UNCHANGED beyondReceipt

NextReceipt ==
  \/ \E fn \in ReceiptWaiters : receiptWaitBegin(fn)
  \/ \E answer \in ReceiptAnswers : receiptRequest(answer)
  \/ receiptSleep
  \/ receiptWaitEnd

\* every request is answered or fails, and every timeout fires
SpecReceipt ==
  /\ Init
  /\ [][NextReceipt]_vars
  /\ WF_vars(\E answer \in ReceiptAnswers : receiptRequest(answer))
  /\ WF_vars(receiptSleep)

\* ------------------------------------------ provider: room data reloads
\* SpecRoomData: the game screen of one room stays open while the room's
\* phase advances on chain and loadRoomData calls (page load, RoomJoined,
\* ResultComputed) read it.  A read returns the room as the node saw it
\* when the call was made; the answers of reads in flight arrive in any
\* order.
IN_PROGRESS == 1
COMPLETED == 2
CANCELLED == 3
RoomPhase == {WAITING_FOR_JOIN, IN_PROGRESS, COMPLETED, CANCELLED}
MaxLoads == 2          \* loadRoomData calls in flight at once

beyondRoomData ==
  <<roomGuesses, handlers, probeReads, isSubmitting, submission, toastTitle,
    pollerVars, receiptVars, inputVars, inviteVars, extraVars>>

\* the contract's phase transitions
PhaseStep(from, to) ==
  \/ from = WAITING_FOR_JOIN /\ to \in {IN_PROGRESS, CANCELLED}
  \/ from = IN_PROGRESS /\ to \in {COMPLETED, CANCELLED}

InitRoomData ==
  /\ currentRoomId \in Rooms
  /\ roomGuesses = <<>>
  /\ roomData = Undefined
  /\ handlers = currentRoomId
  /\ probeReads = EmptyBag
  /\ isSubmitting = FALSE
  /\ submission = Idle
  /\ toastTitle = ""
  /\ InitPoller
  /\ InitReceipt
  /\ InitChain
  /\ InitInput
  /\ InitInvite
  /\ InitExtra

\* a transaction moves a room to its next phase
chainAdvance(r, phase) ==
  /\ PhaseStep(chainPhase[r], phase)
  /\ chainPhase' = [chainPhase EXCEPT ![r] = phase]
  /\ UNCHANGED <<currentRoomId, roomData, roomLoads>>
  /\ UNCHANGED beyondRoomData

\* getRoomWithProvider: the RoomMetadata decoded from getRoom(roomId)
getRoomNow(roomId) ==
  [creator |-> ChainCreator(roomId), phase |-> chainPhase[roomId]]

\* loadRoomData(roomId) is called for the room on screen and awaits getRoom
loadRoomDataCalled ==
  /\ BagCardinality(roomLoads) < MaxLoads
  /\ roomLoads' = roomLoads (+) SetToBag({getRoomNow(currentRoomId)})
  /\ UNCHANGED <<currentRoomId, roomData, chainPhase>>
  /\ UNCHANGED beyondRoomData

\* what loadRoomData leaves in roomData when its read returns or throws
roomDataAfterLoad(data, ok) == IF ok THEN data ELSE Undefined

\* loadRoomData resumes: setRoomData(data), or setRoomData(null) in catch
loadRoomDataResumed(data, ok) ==
  /\ BagIn(data, roomLoads)
  /\ roomLoads' = roomLoads (-) SetToBag({data})
  /\ roomData' = roomDataAfterLoad(data, ok)
  /\ UNCHANGED <<currentRoomId, chainPhase>>
  /\ UNCHANGED beyondRoomData

RoomRecords ==
  { [creator |-> ChainCreator(r), phase |-> phase] :
      r \in Rooms, phase \in RoomPhase }

NextRoomData ==
  \/ \E r \in Rooms, phase \in RoomPhase : chainAdvance(r, phase)
  \/ loadRoomDataCalled
  \/ \E data \in RoomRecords, ok \in BOOLEAN : loadRoomDataResumed(data, ok)

SpecRoomData == InitRoomData /\ [][NextRoomData]_vars

\* ------------------------------------- pages: create room and game input
\* SpecInput: the create-room page (shown while no room is current), then
\* the game screen of the room it created.  Texts typed into the wager
\* field are sequences of characters.
MaxDigit == 3          \* the keypads offer the digits 0..MaxDigit
Keypad == { toString(d) : d \in 0..MaxDigit }

beyondInput ==
  <<handlers, probeReads, pollerVars, receiptVars, chainVars, inviteVars, extraVars>>

IsDigitChar(c) == \E d \in 0..9 : toString(d) = c
\* Number(c) of a one-digit string
Number(c) == CHOOSE d \in 0..9 : toString(d) = c

\* array.findIndex(d => !d), counted from 1; 0 when there is none
findEmptyIndex(digits) ==
  IF \E i \in 1..Len(digits) : digits[i] = ""
  THEN CHOOSE i \in 1..Len(digits) :
         digits[i] = "" /\ \A j \in 1..(i - 1) : digits[j] # ""
  ELSE 0
includes(digits, digit) == \E i \in 1..Len(digits) : digits[i] = digit

\* ---- parseFloat: [sign] digits [. digits] [e [sign] digits], the longest
\* prefix that is a number; the value is the fraction num / den
NaN == [nan |-> TRUE]
RECURSIVE DigitRun(_, _)
DigitRun(s, p) ==
  IF p <= Len(s) /\ IsDigitChar(s[p]) THEN 1 + DigitRun(s, p + 1) ELSE 0
RECURSIVE DigitsValue(_, _, _)
DigitsValue(s, p, n) ==
  IF n = 0 THEN 0
  ELSE 10 * DigitsValue(s, p, n - 1) + Number(s[p + n - 1])
RECURSIVE Pow10(_)
Pow10(k) == IF k = 0 THEN 1 ELSE 10 * Pow10(k - 1)
parseFloat(s) ==
  LET signed == Len(s) >= 1 /\ s[1] \in {"+", "-"}
      sign == IF signed /\ s[1] = "-" THEN -1 ELSE 1
      p == IF signed THEN 2 ELSE 1
      ni == DigitRun(s, p)
      dot == p + ni <= Len(s) /\ s[p + ni] = "."
      nf == IF dot THEN DigitRun(s, p + ni + 1) ELSE 0
      q == IF dot /\ (ni + nf > 0) THEN p + ni + 1 + nf ELSE p + ni
      hasE == q <= Len(s) /\ s[q] \in {"e", "E"}
      esigned == hasE /\ q + 1 <= Len(s) /\ s[q + 1] \in {"+", "-"}
      ep == IF esigned THEN q + 2 ELSE q + 1
      ne == IF hasE THEN DigitRun(s, ep) ELSE 0
      exp == DigitsValue(s, ep, ne)
      eneg == esigned /\ s[q + 1] = "-"
      mant == DigitsValue(s, p, ni) * Pow10(nf) + DigitsValue(s, p + ni + 1, nf)
  IN  IF ni + nf = 0 THEN NaN
      ELSE [nan |-> FALSE,
            num |-> sign * mant * (IF eneg THEN 1 ELSE Pow10(exp)),
            den |-> Pow10(nf) * (IF eneg THEN Pow10(exp) ELSE 1)]

\* a >= b of two numbers; false when either is NaN
AtLeast(a, b) == ~a.nan /\ ~b.nan /\ a.num * b.den >= b.num * a.den

MIN_WAGER == [nan |-> FALSE, num |-> 1, den |-> 10000]

\* what the number field can hand to setWager
WagerInputs ==
  { <<>>, <<"0">>, <<".", "5">>,
    <<"0", ".", "0", "0", "0", "0", "9">>,
    <<"0", ".", "0", "0", "0", "1">>,
    <<"1", "e", "-", "5">>, <<"1", "e", "-", "3">> }

\* ---- CreateRoom page
CreateRoomShown == currentRoomId = NoRoom
isCreating == createRoomCall.called

setWager(value) ==
  /\ CreateRoomShown
  /\ wager' = value
  /\ UNCHANGED <<gameVars, selected, vaultCode, createRoomCall>>
  /\ UNCHANGED beyondInput

handleVaultCodeChange(code, index, value) ==
  IF value = "" \/ (IsDigitChar(value) /\ ~includes(code, value))
  THEN [code EXCEPT ![index] = value]
  ELSE code

\* a keypad button of the create-room page
keypadClick(num) ==
  /\ CreateRoomShown
  /\ ~includes(vaultCode, num)
  /\ LET emptyIndex == findEmptyIndex(vaultCode)
     IN  vaultCode' = IF emptyIndex # 0
                      THEN handleVaultCodeChange(vaultCode, emptyIndex, num)
                      ELSE vaultCode
  /\ UNCHANGED <<gameVars, selected, wager, createRoomCall>>
  /\ UNCHANGED beyondInput

\* the four first numbers of a shuffle
generateRandomCode(randomCode) ==
  /\ CreateRoomShown
  /\ \A i, j \in 1..4 : randomCode[i] = randomCode[j] => i = j
  /\ vaultCode' = randomCode
  /\ UNCHANGED <<gameVars, selected, wager, createRoomCall>>
  /\ UNCHANGED beyondInput

clearVaultCode ==
  /\ CreateRoomShown
  /\ vaultCode' = NoDigits
  /\ UNCHANGED <<gameVars, selected, wager, createRoomCall>>
  /\ UNCHANGED beyondInput

isVaultComplete == \A i \in 1..Len(vaultCode) : vaultCode[i] # ""
isWagerValidNonEmpty == wager # <<>>
isWagerValid == wager # <<>> /\ AtLeast(parseFloat(wager), MIN_WAGER)
isFormValid == isVaultComplete /\ isWagerValid

\* handleCreateRoom up to its await of createRoom(vaultNumbers, wager); the
\* button is disabled while isCreating
handleCreateRoom ==
  /\ CreateRoomShown
  /\ ~isCreating
  /\ IF ~isFormValid
     THEN /\ toastTitle' = "Invalid input"
          /\ UNCHANGED createRoomCall
     ELSE /\ toastTitle' = "Sealing your tomb..."
          /\ createRoomCall' =
               [called |-> TRUE,
                vaultCode |-> [i \in 1..Len(vaultCode) |-> Number(vaultCode[i])],
                wager |-> wager]
  /\ UNCHANGED <<currentRoomId, roomGuesses, roomData, handlers, probeReads,
                 isSubmitting, submission>>
  /\ UNCHANGED <<selected, vaultCode, wager>>
  /\ UNCHANGED <<pollerVars, receiptVars, chainVars, inviteVars, extraVars>>

\* createRoom threw or returned no room id: finally setIsCreating(false)
createRoomFailed ==
  /\ isCreating
  /\ createRoomCall' = [called |-> FALSE]
  /\ UNCHANGED <<currentRoomId, roomGuesses, roomData, handlers, probeReads,
                 isSubmitting, submission, toastTitle>>
  /\ UNCHANGED <<selected, vaultCode, wager>>
  /\ UNCHANGED <<pollerVars, receiptVars, chainVars, inviteVars, extraVars>>

\* createRoom returned the id of the room created: navigate to its game
\* screen, whose mount effect calls setCurrentRoom(roomId); the create-room
\* page and its state are gone
createRoomNavigates(roomId) ==
  /\ isCreating
  /\ ChainCreator(roomId) = PlayerAddress
  /\ createRoomCall' = [called |-> FALSE]
  /\ vaultCode' = NoDigits
  /\ wager' = <<>>
  /\ currentRoomId' = roomId
  /\ roomGuesses' = guessesAfterSetCurrentRoom(roomId, roomGuesses)
  /\ toastTitle' = ""
  /\ UNCHANGED <<roomData, handlers, probeReads, isSubmitting, submission>>
  /\ UNCHANGED selected
  /\ UNCHANGED <<pollerVars, receiptVars, chainVars, inviteVars, extraVars>>

\* ---- GameScreen: the keypad is rendered once the room data is loaded
GameScreenShown == currentRoomId # NoRoom /\ roomData # Undefined

handleDigitSelect(digit) ==
  /\ GameScreenShown
  /\ LET emptyIndex == findEmptyIndex(selected)
     IN  selected' = IF emptyIndex # 0 /\ ~includes(selected, digit)
                     THEN [selected EXCEPT ![emptyIndex] = digit]
                     ELSE selected
  /\ UNCHANGED <<gameVars, vaultCode, wager, createRoomCall>>
  /\ UNCHANGED beyondInput

\* the index handleDeleteLast empties; 0 when every slot is empty
lastFilledIndex(digits) ==
  IF \E i \in 1..Len(digits) : digits[i] # ""
  THEN CHOOSE i \in 1..Len(digits) :
         digits[i] # "" /\ \A j \in (i + 1)..Len(digits) : digits[j] = ""
  ELSE 0

handleDeleteLast ==
  /\ GameScreenShown
  /\ LET i == lastFilledIndex(selected)
     IN  selected' = IF i # 0 THEN [selected EXCEPT ![i] = ""] ELSE selected
  /\ UNCHANGED <<gameVars, vaultCode, wager, createRoomCall>>
  /\ UNCHANGED beyondInput

handleClear ==
  /\ GameScreenShown
  /\ selected' = NoDigits
  /\ UNCHANGED <<gameVars, vaultCode, wager, createRoomCall>>
  /\ UNCHANGED beyondInput

\* the load effect of the game screen
loadCurrentRoom(ok) ==
  /\ currentRoomId # NoRoom
  /\ loadRoomData(currentRoomId, ok)

\* the submit button or the Enter key, with the digits selected
submitPressed == handleSubmit(selected)

\* submitGuess returned: handleSubmit clears the selection
submitGuessReturned ==
  /\ submission.pc = "sending"
  /\ selected' = NoDigits
  /\ toastTitle' = "Excavation launched!"
  /\ isSubmitting' = FALSE
  /\ submission' = Idle
  /\ UNCHANGED <<currentRoomId, roomGuesses, roomData, handlers, probeReads>>
  /\ UNCHANGED <<vaultCode, wager, createRoomCall>>
  /\ UNCHANGED <<pollerVars, receiptVars, chainVars, inviteVars, extraVars>>

RandomCodes == [1..4 -> Keypad]

NextInput ==
  \/ \E value \in WagerInputs : setWager(value)
  \/ \E num \in Keypad : keypadClick(num)
  \/ \E randomCode \in RandomCodes : generateRandomCode(randomCode)
  \/ clearVaultCode
  \/ handleCreateRoom
  \/ createRoomFailed
  \/ \E roomId \in Rooms : createRoomNavigates(roomId)
  \/ \E ok \in BOOLEAN : loadCurrentRoom(ok)
  \/ \E digit \in Keypad : handleDigitSelect(digit)
  \/ handleDeleteLast
  \/ handleClear
  \/ submitPressed
  \/ submitGuessRejected
  \/ submitGuessReturned

SpecInput == Init /\ [][NextInput]_vars

\* ---------------------------------------------------- invitation link
\* SpecInvite: a game screen copies its invitation link; a browser opens
\* the link, or the join page or the home page directly.  Texts are
\* sequences of characters.
MaxIdLen == 2          \* decimal digits of a room id
IdDigits == {"0", "1", "2"}
\* roomId.toString() of the ids the contract gives out: decimal, no
\* leading zero
RoomIdTexts ==
  { id \in UNION { [1..n -> IdDigits] : n \in 1..MaxIdLen } :
      Len(id) > 1 => id[1] # "0" }
Origins ==
  { <<"h", "t", "t", "p", ":", "/", "/", "a">>,
    <<"h", "t", "t", "p", "s", ":", "/", "/", "b", ".", "c", ":", "8", "0">> }

beyondInvite ==
  <<gameVars, pollerVars, receiptVars, chainVars, inputVars, extraVars>>

\* `${window.location.origin}/join?room=${roomId}`
invitationUrlOtherKey(origin, roomId) ==
  origin \o <<"/", "j", "o", "i", "n", "?", "i", "d", "=">> \o roomId
invitationUrl(origin, roomId) ==
  origin \o <<"/", "j", "o", "i", "n", "?", "r", "o", "o", "m", "=">> \o roomId

copyInvitationLink(origin, roomId) ==
  /\ inviteLink' = invitationUrl(origin, roomId)
  /\ invitedRoom' = roomId
  /\ UNCHANGED <<joinRoomId, joinOpen>>
  /\ UNCHANGED beyondInvite

\* ---- the parts of a URL
\* the first position from p on that holds c; Len(s) + 1 when there is none
RECURSIVE IndexFrom(_, _, _)
IndexFrom(s, c, p) ==
  IF p > Len(s) THEN Len(s) + 1
  ELSE IF s[p] = c THEN p
  ELSE IndexFrom(s, c, p + 1)
Min(a, b) == IF a <= b THEN a ELSE b
\* scheme://host ends at the first "/" after "://"
pathStart(url) == IndexFrom(url, "/", IndexFrom(url, ":", 1) + 3)
pathEnd(url) ==
  Min(IndexFrom(url, "?", pathStart(url)), IndexFrom(url, "#", pathStart(url)))
pathname(url) == SubSeq(url, pathStart(url), pathEnd(url) - 1)
\* location.search without its "?"
search(url) ==
  LET q == IndexFrom(url, "?", pathStart(url))
      h == IndexFrom(url, "#", pathStart(url))
  IN  IF q < h THEN SubSeq(url, q + 1, h - 1) ELSE <<>>

\* ---- URLSearchParams
RECURSIVE Split(_, _)
Split(s, sep) ==
  LET i == IndexFrom(s, sep, 1)
  IN  IF i > Len(s) THEN <<s>>
      ELSE <<SubSeq(s, 1, i - 1)>> \o Split(SubSeq(s, i + 1, Len(s)), sep)
\* decoding of a name or value: "+" is a space
decode(s) == [i \in 1..Len(s) |-> IF s[i] = "+" THEN " " ELSE s[i]]
paramName(pair) == decode(SubSeq(pair, 1, IndexFrom(pair, "=", 1) - 1))
paramValue(pair) == decode(SubSeq(pair, IndexFrom(pair, "=", 1) + 1, Len(pair)))
null == [found |-> FALSE]
\* searchParams.get(name): the value of the first pair with that name
searchParamsGet(query, name) ==
  LET pairs == SelectSeq(Split(query, "&"), LAMBDA pair : pair # <<>>)
      hits == SelectSeq(pairs, LAMBDA pair : paramName(pair) = name)
  IN  IF hits = <<>> THEN null
      ELSE [found |-> TRUE, value |-> paramValue(hits[1])]
truthy(v) == v.found /\ v.value # <<>>
\* a || b
orElse(a, b) == IF truthy(a) THEN a ELSE b

\* ---- JoinRoom: useState("") and the auto-fill effect
roomIdAfterAutoFill(query) ==
  LET urlRoomId == orElse(searchParamsGet(query, <<"r", "o", "o", "m">>),
                          searchParamsGet(query, <<"r", "o", "o", "m", "I", "d">>))
  IN  IF truthy(urlRoomId) THEN urlRoomId.value ELSE <<>>

\* ---- the routes that render JoinRoom
InvitePath == <<"/", "j", "o", "i", "n">>
JoinRoomPath == <<"/", "j", "o", "i", "n", "-", "r", "o", "o", "m">>
HomePath == <<"/">>
rendersJoinRoom(path) == path \in {InvitePath, JoinRoomPath}

\* ---- JoinRoom: checkRoomValidity and the effects that call it
MaxChecks == 2         \* checkRoomValidity calls awaiting getRoom at a time
ZeroAddress == "0x0000000000000000000000000000000000000000"
beyondJoin ==
  <<gameVars, pollerVars, receiptVars, chainVars, inputVars, sessionVars,
    windowVars>>

Checking == [isValid |-> FALSE, isChecking |-> TRUE, error |-> ""]
Valid == [isValid |-> TRUE, isChecking |-> FALSE, error |-> ""]
Invalid(error) == [isValid |-> FALSE, isChecking |-> FALSE, error |-> error]
Timeout(roomId) == [pending |-> TRUE, roomId |-> roomId]

\* String.prototype.trim over texts whose only white space is " "
RECURSIVE trimStart(_)
trimStart(s) == IF s # <<>> /\ s[1] = " " THEN trimStart(Tail(s)) ELSE s
RECURSIVE trimEnd(_)
trimEnd(s) ==
  IF s # <<>> /\ s[Len(s)] = " "
  THEN trimEnd(SubSeq(s, 1, Len(s) - 1))
  ELSE s
trim(s) == trimEnd(trimStart(s))

\* Number(roomIdToCheck) of decimal digits between optional spaces
roomNumber(roomIdToCheck) ==
  DigitsValue(trim(roomIdToCheck), 1, Len(trim(roomIdToCheck)))

\* formatEther(decoded[2]): each room was created with a wager of its own
roomWager(r) == <<"0", ".", "0", toString(r)>>
\* getRoom(roomId) as the join page receives it; an id the contract never
\* gave out decodes to the zero room
getRoomMetadata(roomId) ==
  IF roomId \in Rooms
  THEN [creator |-> ChainCreator(roomId), phase |-> chainPhase[roomId],
        wager |-> roomWager(roomId)]
  ELSE [creator |-> ZeroAddress, phase |-> WAITING_FOR_JOIN,
        wager |-> <<"0", ".", "0">>]

phaseText(phase) ==
  IF phase = IN_PROGRESS THEN "in progress"
  ELSE IF phase = COMPLETED THEN "completed"
  ELSE "cancelled"

\* roomValidation after the awaited getRoom returned room (ok) or threw
validationAfterCheck(room, ok) ==
  IF ~ok THEN Invalid("Failed to check room")
  ELSE IF room.creator = ZeroAddress THEN Invalid("Invalid room")
  ELSE IF room.phase # WAITING_FOR_JOIN
    THEN Invalid("Room is " \o phaseText(room.phase))
  ELSE IF room.creator = PlayerAddress THEN Invalid("Cannot join your own room")
  ELSE Valid

\* roomData after it: setRoomData(room) on the valid path, else null
dataAfterCheck(room, ok) ==
  IF validationAfterCheck(room, ok).isValid THEN room ELSE null

\* the synchronous part of checkRoomValidity(roomIdToCheck), up to its await
blank(roomIdToCheck) == trim(roomIdToCheck) = <<>>
validationAfterCall(roomIdToCheck) ==
  IF blank(roomIdToCheck) THEN Unchecked ELSE Checking
dataAfterCall(roomIdToCheck, data) ==
  IF blank(roomIdToCheck) THEN null ELSE data
checksAfterCall(roomIdToCheck, checks) ==
  IF blank(roomIdToCheck) THEN checks
  ELSE checks (+) SetToBag({roomIdToCheck})

\* JoinRoom mounts with the query of its URL: the auto-fill effect sets the
\* field and calls checkRoomValidity(urlRoomId), the debounce effect of the
\* render that follows leaves one timeout for the field's text.  The calls
\* of an earlier mount set the state of a component that is gone.
joinRoomMounts(query) ==
  LET urlRoomId == roomIdAfterAutoFill(query)
  IN  /\ joinRoomId' = urlRoomId
      /\ roomValidation' =
           IF urlRoomId = <<>> THEN Unchecked ELSE validationAfterCall(urlRoomId)
      /\ joinRoomData' = null
      /\ validityChecks' =
           IF urlRoomId = <<>> THEN EmptyBag
           ELSE checksAfterCall(urlRoomId, EmptyBag)
      /\ timeoutId' = Timeout(urlRoomId)

\* another page mounts: JoinRoom's state and its timeout are gone
joinRoomUnmounts ==
  /\ joinRoomId' = <<>>
  /\ roomValidation' = Unchecked
  /\ joinRoomData' = null
  /\ validityChecks' = EmptyBag
  /\ timeoutId' = NoTimeout

\* a browser tab opens url: the page of its route mounts
openUrl(url) ==
  /\ joinOpen' = rendersJoinRoom(pathname(url))
  /\ IF rendersJoinRoom(pathname(url))
     THEN joinRoomMounts(search(url))
     ELSE joinRoomUnmounts
  /\ UNCHANGED <<inviteLink, invitedRoom>>
  /\ UNCHANGED beyondJoin

\* the invited player pastes the link copied last
openInvitation ==
  /\ inviteLink # <<>>
  /\ openUrl(inviteLink)

\* the room id field is edited
\* onChange: a new text re-renders, and the debounce effect replaces its
\* timeout by one for the new text
setRoomId(value) ==
  /\ joinOpen
  /\ joinRoomId' = value
  /\ timeoutId' = IF value # joinRoomId THEN Timeout(value) ELSE timeoutId
  /\ UNCHANGED <<roomValidation, joinRoomData, validityChecks>>
  /\ UNCHANGED <<inviteLink, invitedRoom, joinOpen>>
  /\ UNCHANGED beyondJoin

NextInvite ==
  \/ \E origin \in Origins, roomId \in RoomIdTexts :
       copyInvitationLink(origin, roomId)
  \/ openInvitation
  \/ \E origin \in Origins, path \in {JoinRoomPath, HomePath} :
       openUrl(origin \o path)
  \/ \E value \in RoomIdTexts \cup {<<>>} : setRoomId(value)

SpecInvite == Init /\ [][NextInvite]_vars

\* ----------------------------------------- the join page's validity check
\* The room id field is edited while checks of earlier texts await getRoom.
\* what can be typed into the field
JoinInputs ==
  { <<>>, <<" ">>, <<"0">>, <<"1">>, <<"2">>, <<"0", "2">> }

\* checkRoomValidity(roomIdToCheck) is called
checkRoomValidity(roomIdToCheck) ==
  /\ BagCardinality(validityChecks) < MaxChecks
  /\ roomValidation' = validationAfterCall(roomIdToCheck)
  /\ joinRoomData' = dataAfterCall(roomIdToCheck, joinRoomData)
  /\ validityChecks' = checksAfterCall(roomIdToCheck, validityChecks)

\* the debounce timeout fires 500 ms after the last change of the field
debounceFires ==
  /\ joinOpen
  /\ timeoutId.pending
  /\ checkRoomValidity(timeoutId.roomId)
  /\ timeoutId' = NoTimeout
  /\ UNCHANGED inviteVars
  /\ UNCHANGED beyondJoin

\* onBlur={() => checkRoomValidity(roomId)}
onBlur ==
  /\ joinOpen
  /\ checkRoomValidity(joinRoomId)
  /\ UNCHANGED timeoutId
  /\ UNCHANGED inviteVars
  /\ UNCHANGED beyondJoin

\* a checkRoomValidity call resumes after its getRoom
checkRoomValidityResumed(roomIdToCheck, ok) ==
  /\ BagIn(roomIdToCheck, validityChecks)
  /\ validityChecks' = validityChecks (-) SetToBag({roomIdToCheck})
  /\ LET room == getRoomMetadata(roomNumber(roomIdToCheck))
     IN  /\ roomValidation' = validationAfterCheck(room, ok)
         /\ joinRoomData' = dataAfterCheck(room, ok)
  /\ UNCHANGED timeoutId
  /\ UNCHANGED inviteVars
  /\ UNCHANGED beyondJoin

NextJoin ==
  \/ \E origin \in Origins, roomId \in {<<"1">>, <<"2">>} :
       openUrl(invitationUrl(origin, roomId))
  \/ \E origin \in Origins, path \in {JoinRoomPath, HomePath} :
       openUrl(origin \o path)
  \/ \E value \in JoinInputs : setRoomId(value)
  \/ debounceFires
  \/ onBlur
  \/ \E roomIdToCheck \in JoinInputs, ok \in BOOLEAN :
       checkRoomValidityResumed(roomIdToCheck, ok)
  \/ \E r \in Rooms, phase \in RoomPhase : chainAdvance(r, phase)

SpecJoin == Init /\ [][NextJoin]_vars

\* ------------------------------------------------ provider: the session
\* SpecSession: the SDK is initialized, the wallet connects (by the connect
\* button or by the autoConnect effect), the balance is fetched, the event
\* listener effect starts the poller, a room is shown and guesses are
\* submitted, and disconnectWallet resets the session.  An effect runs in
\* the step that changes one of its dependencies.  The balance text is a
\* sequence of characters.
MaxSessionCalls == 2   \* wallet requests in flight at once
Account == 1           \* the sub-account the wallet holds for this site
NewAccount == 2        \* the sub-account wallet_addSubAccount creates
UniversalAddr == "0xuniversal"
BalancesMilliEth == {0, 1500}   \* eth_getBalance, in 1/1000 ETH

sessionGameRest == <<roomData, probeReads, isSubmitting, submission>>
beyondSession ==
  <<receiptVars, chainVars, inputVars, inviteVars, windowVars, joinVars>>
pollerRest == <<due, cycles, warnings>>

CallIn(call) == BagIn(call, sessionCalls)
CallsWith(call) == sessionCalls (+) SetToBag({call})
CallsWithout(call) == sessionCalls (-) SetToBag({call})
CallsMoved(from, to) == CallsWithout(from) (+) SetToBag({to})

\* the autoConnect effect, run because provider or connected changed:
\* the requests in flight after it ran
afterAutoConnectEffect(calls, providerNow, connectedNow) ==
  IF providerNow /\ ~connectedNow
  THEN calls (+) SetToBag({"auto:eth_accounts"})
  ELSE calls

\* the balance effect, run because subAccount.address changed
afterBalanceEffect(calls, before, after) ==
  IF after # before /\ after # NoAccount
  THEN calls (+) SetToBag({"eth_getBalance"})
  ELSE calls

\* parseFloat(formatEther(wei)).toFixed(3), for less than 10 ETH
toFixed3(milli) ==
  <<toString(milli \div 1000), ".", toString((milli \div 100) % 10),
    toString((milli \div 10) % 10), toString(milli % 10)>>

initializeSDK ==
  /\ ~isProviderReady
  /\ isProviderReady' = TRUE
  /\ sessionCalls' = afterAutoConnectEffect(sessionCalls, TRUE, connected)
  /\ UNCHANGED <<connected, subAccount, universalAddress, balance,
                 isListeningToEvents, walletAuthorized>>
  /\ UNCHANGED <<gameVars, pollerVars, beyondSession, disconnected>>

\* autoConnect resumes after eth_accounts
autoConnectAccounts(ok) ==
  /\ CallIn("auto:eth_accounts")
  /\ IF ok /\ walletAuthorized
     THEN /\ universalAddress' = UniversalAddr
          /\ connected' = TRUE
          /\ sessionCalls' =
               CallsMoved("auto:eth_accounts", "auto:wallet_getSubAccounts")
     ELSE /\ sessionCalls' = CallsWithout("auto:eth_accounts")
          /\ UNCHANGED <<universalAddress, connected>>
  /\ UNCHANGED <<subAccount, balance, isListeningToEvents, isProviderReady,
                 walletAuthorized>>
  /\ UNCHANGED <<gameVars, pollerVars, beyondSession, disconnected>>

\* setSubAccount(account) and the balance effect it triggers
setSubAccountFrom(call, account) ==
  /\ subAccount' = account
  /\ sessionCalls' =
       afterBalanceEffect(CallsWithout(call), subAccount, account)

\* autoConnect resumes after wallet_getSubAccounts
autoConnectSubAccounts(existing, ok) ==
  /\ CallIn("auto:wallet_getSubAccounts")
  /\ IF ~ok
     THEN /\ sessionCalls' = CallsWithout("auto:wallet_getSubAccounts")
          /\ UNCHANGED subAccount
     ELSE IF existing
     THEN setSubAccountFrom("auto:wallet_getSubAccounts", Account)
     ELSE /\ sessionCalls' = CallsMoved("auto:wallet_getSubAccounts",
                                        "auto:wallet_addSubAccount")
          /\ UNCHANGED subAccount
  /\ UNCHANGED <<connected, universalAddress, balance, isListeningToEvents,
                 isProviderReady, walletAuthorized>>
  /\ UNCHANGED <<gameVars, pollerVars, beyondSession, disconnected>>

\* autoConnect or createSubAccount resumes after wallet_addSubAccount
subAccountAdded(call, ok) ==
  /\ call \in {"auto:wallet_addSubAccount", "create:wallet_addSubAccount"}
  /\ CallIn(call)
  /\ IF ok
     THEN setSubAccountFrom(call, NewAccount)
     ELSE /\ sessionCalls' = CallsWithout(call)
          /\ UNCHANGED subAccount
  /\ UNCHANGED <<connected, universalAddress, balance, isListeningToEvents,
                 isProviderReady, walletAuthorized>>
  /\ UNCHANGED <<gameVars, pollerVars, beyondSession, disconnected>>

\* the connect button of the navbar, shown while not connected
connectWallet ==
  /\ isProviderReady
  /\ ~connected
  /\ ~CallIn("connect:eth_requestAccounts")
  /\ BagCardinality(sessionCalls) < MaxSessionCalls
  /\ sessionCalls' = CallsWith("connect:eth_requestAccounts")
  /\ disconnected' = FALSE
  /\ UNCHANGED <<connected, subAccount, universalAddress, balance,
                 isListeningToEvents, isProviderReady, walletAuthorized>>
  /\ UNCHANGED <<gameVars, pollerVars, beyondSession>>

\* connectWallet resumes after eth_requestAccounts
connectWalletAccounts(ok) ==
  /\ CallIn("connect:eth_requestAccounts")
  /\ IF ok
     THEN /\ walletAuthorized' = TRUE
          /\ universalAddress' = UniversalAddr
          /\ connected' = TRUE
          /\ sessionCalls' = CallsMoved("connect:eth_requestAccounts",
                                        "connect:wallet_getSubAccounts")
     ELSE /\ sessionCalls' = CallsWithout("connect:eth_requestAccounts")
          /\ UNCHANGED <<walletAuthorized, universalAddress, connected>>
  /\ UNCHANGED <<subAccount, balance, isListeningToEvents, isProviderReady>>
  /\ UNCHANGED <<gameVars, pollerVars, beyondSession, disconnected>>

\* connectWallet resumes after wallet_getSubAccounts; with no existing
\* sub-account it calls createSubAccount without awaiting it
connectWalletSubAccounts(existing, ok) ==
  /\ CallIn("connect:wallet_getSubAccounts")
  /\ IF ~ok
     THEN /\ sessionCalls' = CallsWithout("connect:wallet_getSubAccounts")
          /\ UNCHANGED subAccount
     ELSE IF existing
     THEN setSubAccountFrom("connect:wallet_getSubAccounts", Account)
     ELSE /\ sessionCalls' = CallsMoved("connect:wallet_getSubAccounts",
                                        "create:wallet_addSubAccount")
          /\ UNCHANGED subAccount
  /\ UNCHANGED <<connected, universalAddress, balance, isListeningToEvents,
                 isProviderReady, walletAuthorized>>
  /\ UNCHANGED <<gameVars, pollerVars, beyondSession, disconnected>>

\* fetchBalanceEffect resumes after eth_getBalance
balanceFetched(milli, ok) ==
  /\ CallIn("eth_getBalance")
  /\ sessionCalls' = CallsWithout("eth_getBalance")
  /\ balance' = IF ok THEN toFixed3(milli) ELSE <<"0">>
  /\ UNCHANGED <<connected, subAccount, universalAddress,
                 isListeningToEvents, isProviderReady, walletAuthorized>>
  /\ UNCHANGED <<gameVars, pollerVars, beyondSession, disconnected>>

\* the user removes the site's permission in the wallet
walletRevoked ==
  /\ walletAuthorized
  /\ walletAuthorized' = FALSE
  /\ UNCHANGED <<connected, subAccount, universalAddress, balance,
                 isListeningToEvents, isProviderReady, sessionCalls>>
  /\ UNCHANGED <<gameVars, pollerVars, beyondSession, disconnected>>

\* the event listener effect: eventHandler.initialize with the handlers of
\* this render, setIsListeningToEvents(true)
listenerEffect ==
  /\ isProviderReady
  /\ ~isListeningToEvents
  /\ timers \cup due # TimerIds
  /\ startListening
  /\ isListeningToEvents' = TRUE
  /\ handlers' = currentRoomId
  /\ UNCHANGED <<connected, subAccount, universalAddress, balance,
                 isProviderReady, walletAuthorized, sessionCalls>>
  /\ UNCHANGED <<currentRoomId, roomGuesses, toastTitle>>
  /\ UNCHANGED <<sessionGameRest, pollerRest, beyondSession, disconnected>>

\* eventHandler.stopListening(), on the poller's fields
stopListeningFields ==
  IF ~isListening
  THEN UNCHANGED <<isListening, pollInterval, timers>>
  ELSE /\ IF pollInterval # NoTimer
          THEN /\ timers' = timers \ {pollInterval}
               /\ pollInterval' = NoTimer
          ELSE UNCHANGED <<pollInterval, timers>>
       /\ isListening' = FALSE

\* disconnectWallet that leaves the room state as it is
disconnectWalletKeepsRoom ==
  /\ connected
  /\ subAccount # NoAccount
  /\ BagCardinality(sessionCalls) < MaxSessionCalls
  /\ subAccount' = NoAccount
  /\ universalAddress' = ""
  /\ connected' = FALSE
  /\ balance' = <<"0">>
  /\ UNCHANGED <<currentRoomId, roomGuesses>>
  /\ IF isListeningToEvents
     THEN stopListeningFields /\ isListeningToEvents' = FALSE
     ELSE UNCHANGED <<isListening, pollInterval, timers, isListeningToEvents>>
  /\ sessionCalls' =
       afterAutoConnectEffect(sessionCalls, isProviderReady, FALSE)
  /\ toastTitle' = ""
  /\ disconnected' = TRUE
  /\ UNCHANGED <<isProviderReady, walletAuthorized, handlers>>
  /\ UNCHANGED <<sessionGameRest, pollerRest, beyondSession>>

\* the disconnect item of the wallet menu, shown while connected with a
\* sub-account; the autoConnect effect runs because connected changed
disconnectWallet ==
  /\ connected
  /\ subAccount # NoAccount
  /\ BagCardinality(sessionCalls) < MaxSessionCalls
  /\ subAccount' = NoAccount
  /\ universalAddress' = ""
  /\ connected' = FALSE
  /\ balance' = <<"0">>
  /\ currentRoomId' = NoRoom
  /\ roomGuesses' = <<>>
  /\ IF isListeningToEvents
     THEN stopListeningFields /\ isListeningToEvents' = FALSE
     ELSE UNCHANGED <<isListening, pollInterval, timers, isListeningToEvents>>
  /\ sessionCalls' =
       afterAutoConnectEffect(sessionCalls, isProviderReady, FALSE)
  /\ toastTitle' = ""
  /\ disconnected' = TRUE
  /\ UNCHANGED <<isProviderReady, walletAuthorized, handlers>>
  /\ UNCHANGED <<sessionGameRest, pollerRest, beyondSession>>

NextSession ==
  \/ initializeSDK
  \/ \E ok \in BOOLEAN : autoConnectAccounts(ok)
  \/ \E existing, ok \in BOOLEAN : autoConnectSubAccounts(existing, ok)
  \/ \E call \in {"auto:wallet_addSubAccount", "create:wallet_addSubAccount"},
        ok \in BOOLEAN : subAccountAdded(call, ok)
  \/ connectWallet
  \/ \E ok \in BOOLEAN : connectWalletAccounts(ok)
  \/ \E existing, ok \in BOOLEAN : connectWalletSubAccounts(existing, ok)
  \/ \E milli \in BalancesMilliEth, ok \in BOOLEAN : balanceFetched(milli, ok)
  \/ walletRevoked
  \/ listenerEffect
  \/ disconnectWallet
  \/ \E roomId \in Rooms \cup {NoRoom} : setCurrentRoom(roomId)
  \/ \E ok \in BOOLEAN : loadCurrentRoom(ok)
  \/ \E selectedDigits \in DigitChoices : handleSubmit(selectedDigits)
  \/ submitGuessRejected

SpecSession == Init /\ [][NextSession]_vars

\* --------------------------------------- eventHandler: the poll window
\* SpecWindow: blocks are mined, some with a log of the contract; the
\* poller is initialized and stopped; each timer callback starts a
\* checkForNewEvents call, which reads the block number, queries the logs
\* of its window and hands each to processEvent, which calls the handler.
MaxBlock == 12         \* blocks mined
MaxLogs == 1           \* blocks that hold a log
MaxPolls == 1          \* checkForNewEvents calls in flight at once
lookback == 10

Blocks == 0..MaxBlock
NoDispatch == [done |-> FALSE, blocks |-> {}]
beyondWindow ==
  <<gameVars, receiptVars, chainVars, inputVars, inviteVars, sessionVars,
    joinVars>>

mineBlock(withLog) ==
  /\ latestBlock < MaxBlock
  /\ latestBlock' = latestBlock + 1
  /\ logs' = IF withLog /\ Cardinality(logs) < MaxLogs
             THEN logs \cup {latestBlock + 1}
             ELSE logs
  /\ lastDispatch' = NoDispatch
  /\ UNCHANGED <<polls, dispatchedLogs>>
  /\ UNCHANGED <<pollerVars, beyondWindow>>

\* the timer callback of startPolling, up to the await of getBlockNumber
pollTimerCallback(id) ==
  /\ id \in due
  /\ due' = due \ {id}
  /\ IF ~isListening
     THEN /\ timers' = timers \ {id}
          /\ UNCHANGED polls
     ELSE /\ BagCardinality(polls) < MaxPolls
          /\ polls' = polls (+) SetToBag({[stage |-> "getBlockNumber"]})
          /\ UNCHANGED timers
  /\ lastDispatch' = NoDispatch
  /\ UNCHANGED <<isListening, pollInterval, cycles, warnings>>
  /\ UNCHANGED <<latestBlock, logs, dispatchedLogs>>
  /\ UNCHANGED beyondWindow

\* Math.max(0, latestBlock - 10) with the window back to block 0
fromBlockGenesis(latest) == 0
\* Math.max(0, latestBlock - 10)
fromBlockOf(latest) == IF latest - lookback > 0 THEN latest - lookback ELSE 0

\* checkForNewEvents resumes after getBlockNumber and calls queryFilter
pollBlockNumber(ok) ==
  /\ BagIn([stage |-> "getBlockNumber"], polls)
  /\ polls' =
       IF ok
       THEN (polls (-) SetToBag({[stage |-> "getBlockNumber"]}))
              (+) SetToBag({[stage |-> "queryFilter",
                             fromBlock |-> fromBlockOf(latestBlock),
                             latestBlock |-> latestBlock]})
       ELSE polls (-) SetToBag({[stage |-> "getBlockNumber"]})
  /\ lastDispatch' = NoDispatch
  /\ UNCHANGED <<latestBlock, logs, dispatchedLogs>>
  /\ UNCHANGED <<pollerVars, beyondWindow>>

\* contract.queryFilter("*", fromBlock, toBlock)
queryFilter(fromBlock, toBlock) ==
  { b \in logs : fromBlock <= b /\ b <= toBlock }

PollsAtQuery ==
  { [stage |-> "queryFilter", fromBlock |-> f, latestBlock |-> l] :
      f \in Blocks, l \in Blocks }

\* checkForNewEvents resumes after queryFilter: every log returned is
\* handed to processEvent, which calls its handler
pollQueryFilter(poll, ok) ==
  /\ BagIn(poll, polls)
  /\ polls' = polls (-) SetToBag({poll})
  /\ lastDispatch' =
       IF ok
       THEN [done |-> TRUE, fromBlock |-> poll.fromBlock,
             blocks |-> queryFilter(poll.fromBlock, poll.latestBlock)]
       ELSE NoDispatch
  /\ dispatchedLogs' = dispatchedLogs \cup lastDispatch'.blocks
  /\ UNCHANGED <<latestBlock, logs>>
  /\ UNCHANGED <<pollerVars, beyondWindow>>

NextWindow ==
  \/ \E withLog \in BOOLEAN : mineBlock(withLog)
  \/ eventHandler_initialize
  \/ stopListening
  \/ \E id \in TimerIds : timerTick(id)
  \/ \E id \in TimerIds : pollTimerCallback(id)
  \/ \E ok \in BOOLEAN : pollBlockNumber(ok)
  \/ \E poll \in PollsAtQuery, ok \in BOOLEAN : pollQueryFilter(poll, ok)

SpecWindow == Init /\ [][NextWindow]_vars

\* ------------------------------------------------------------ properties
Confirmed(g) == HasResult(g) /\ ~IsPending(g)
SelectedDigits == { d \in DigitChoices : isComplete(d) }

\* the steps in which handleSubmit's catch block runs
RollbackStep == submitGuessRejected \/ submitGuessWaited(maxAttempts)

\* C1: when handleResultComputed has applied an event, applying the same
\* event once more (its read in flight at the same time or dispatched
\* later, its getProbe read succeeding or not) gives the list that a single
\* application gives: the list as it is, or the single application with
\* the digits read.
C1_SameEventIdempotent ==
  [][\A event \in Events, fetched \in BOOLEAN :
       handleResultComputed(event, fetched) =>
         \A again \in BOOLEAN :
           mergeResult(roomGuesses', event, again) =
             mergeResult(roomGuesses, event, fetched \/ again)]_vars

\* an event has been applied with its digits read while a second call for
\* the same event is still awaiting its getProbe read
C1_Witness ==
  \E event \in Events :
    /\ BagIn(event, probeReads)
    /\ Existing(roomGuesses, event.turnIndex)
    /\ Find(roomGuesses, event.turnIndex) =
         [turnIndex |-> event.turnIndex, digits |-> guessDigitsOf(event),
          pending |-> FALSE, result |-> ResultOf(event)]

\* C2: once the entry at a turn index has a result, no step changes or
\* clears that result while the entry exists.
C2_ResultImmutable ==
  [][\A t \in Turns :
       (/\ Existing(roomGuesses, t)
        /\ HasResult(Find(roomGuesses, t))
        /\ Existing(roomGuesses', t))
       => /\ HasResult(Find(roomGuesses', t))
          /\ Find(roomGuesses', t).result = Find(roomGuesses, t).result]_vars

\* C3: when handleSubmit adds its optimistic guess at a turn index whose
\* entry is what the ResultComputed merge of this room's event alone
\* produced, the entry afterwards is the one the opposite order (add, then
\* merge) produces: not pending, with the event's result and its digits.
C3_EitherOrderSameEntry ==
  [][\A d \in SelectedDigits, event \in Events, fetched \in BOOLEAN :
       LET t == currentTurnIndex
           others == removeGuess(roomGuesses, t)
       IN  (/\ handleSubmit(d)
            /\ submission'.pc = "sending"
            /\ event.turnIndex = t
            /\ event.roomId = currentRoomId
            /\ Existing(roomGuesses, t)
            /\ Find(roomGuesses, t) =
                 Find(mergeResult(others, event, fetched), t))
           => /\ Find(roomGuesses', t) =
                  Find(mergeResult(addGuess(others, newGuess(t, d)),
                                    event, fetched), t)
              /\ ~IsPending(Find(roomGuesses', t))
              /\ HasResult(Find(roomGuesses', t))
              /\ Find(roomGuesses', t).digits # <<>>]_vars

\* C4: while the room stays active a confirmed guess stays confirmed (never
\* pending again, never absent), and a pending guess becomes absent only in
\* the rollback of a failed submission.
C4_GuessLifecycle ==
  [][(currentRoomId # NoRoom /\ currentRoomId' = currentRoomId) =>
       \A t \in Turns :
         /\ (Existing(roomGuesses, t) /\ Confirmed(Find(roomGuesses, t)))
            => (Existing(roomGuesses', t) /\ Confirmed(Find(roomGuesses', t)))
         /\ (/\ Existing(roomGuesses, t)
             /\ IsPending(Find(roomGuesses, t))
             /\ ~Existing(roomGuesses', t))
            => RollbackStep]_vars

\* C5: the guess list holds at most one entry per turn index.
C5_OneEntryPerTurn ==
  \A i, j \in 1..Len(roomGuesses) :
    roomGuesses[i].turnIndex = roomGuesses[j].turnIndex => i = j

\* the list holds an entry per turn index, one of them an optimistic guess
\* merged with the result of its ResultComputed event
C5_Witness ==
  /\ Len(roomGuesses) = MaxTurn
  /\ \E i \in 1..Len(roomGuesses), d \in SelectedDigits :
       roomGuesses[i].digits = d /\ HasResult(roomGuesses[i])

\* C6: no guess in the list is both pending and carrying a result.
C6_PendingHasNoResult ==
  \A i \in 1..Len(roomGuesses) :
    ~(IsPending(roomGuesses[i]) /\ HasResult(roomGuesses[i]))

\* C7: whenever the active room changes, to another room id or to none,
\* the guess list is emptied.
C7_RoomChangeClears ==
  [][currentRoomId' # currentRoomId => roomGuesses' = <<>>]_vars

\* C8: when submitGuess throws, the rollback leaves the list as it was
\* before the submission began: the entry at the call's turn index is the
\* optimistic entry the call added, not a guess that was already recorded,
\* it is removed, and every other guess is unchanged.
C8_RollbackRestores ==
  [][RollbackStep =>
       /\ ~submission.existed
       /\ ~Existing(roomGuesses', submission.turnIndex)
       /\ roomGuesses' = removeGuess(roomGuesses, submission.turnIndex)]_vars

\* C9: when the receipt wait times out, the screen does not report the
\* submission as failed and the optimistic guess stays in the list.
C9_TimeoutLeavesUnconfirmed ==
  [][submitGuessWaited(maxAttempts) =>
       /\ toastTitle' # "Submission failed"
       /\ roomGuesses' = roomGuesses]_vars

\* C10: when handleResultComputed updates the list for an event of the
\* active room, an existing entry at the event's turn index gets the
\* event's result and pending false, and otherwise a new non-pending entry
\* with that result is appended; the handling of an event whose room is not
\* the active room, at its dispatch and when its read returns, leaves the
\* list and the reads in flight unchanged.
C10_ResultHandling ==
  [][\A event \in Events :
       /\ \A fetched \in BOOLEAN :
            handleResultComputed(event, fetched) =>
              IF event.roomId # currentRoomId
              THEN roomGuesses' = roomGuesses
              ELSE LET t == event.turnIndex
                       wanted == [breached |-> event.signedResult.breaches,
                                  injured |-> event.signedResult.signals]
                   IN  /\ Existing(roomGuesses', t)
                       /\ Find(roomGuesses', t).result = wanted
                       /\ Find(roomGuesses', t).pending = FALSE
                       /\ IF Existing(roomGuesses, t)
                          THEN Len(roomGuesses') = Len(roomGuesses)
                          ELSE /\ Len(roomGuesses') = Len(roomGuesses) + 1
                               /\ roomGuesses'[Len(roomGuesses')].turnIndex = t
                       /\ \A u \in Turns \ {t} :
                            /\ Existing(roomGuesses', u) = Existing(roomGuesses, u)
                            /\ Existing(roomGuesses, u) =>
                                 Find(roomGuesses', u) = Find(roomGuesses, u)
       /\ (processEvent(event.roomId, event.turnIndex)
           /\ event.roomId # currentRoomId)
          => UNCHANGED <<roomGuesses, probeReads>>]_vars

\* C11: the addGuess of handleSubmit appends the pending guess when the list
\* has no entry at its turn index; when it has one, every field of the new
\* guess replaces the old value, every other field of the old entry is
\* kept, and the entries at other turn indices are unchanged.
C11_AddGuessMerges ==
  [][\A d \in SelectedDigits :
       (handleSubmit(d) /\ submission'.pc = "sending") =>
         LET t == currentTurnIndex
             guess == newGuess(t, d)
         IN  /\ Existing(roomGuesses', t)
             /\ IsPending(Find(roomGuesses', t))
             /\ IF ~Existing(roomGuesses, t)
                THEN roomGuesses' = Append(roomGuesses, guess)
                ELSE /\ Len(roomGuesses') = Len(roomGuesses)
                     /\ \A i \in 1..Len(roomGuesses) :
                          IF roomGuesses[i].turnIndex # t
                          THEN roomGuesses'[i] = roomGuesses[i]
                          ELSE /\ DOMAIN roomGuesses'[i] =
                                    DOMAIN roomGuesses[i] \cup DOMAIN guess
                               /\ \A k \in DOMAIN guess :
                                    roomGuesses'[i][k] = guess[k]
                               /\ \A k \in DOMAIN roomGuesses[i] \ DOMAIN guess :
                                    roomGuesses'[i][k] = roomGuesses[i][k]]_vars

\* a handleSubmit in flight whose addGuess merged over an entry that
\* carried a result
C11_Witness ==
  /\ submission.pc = "sending"
  /\ submission.existed
  /\ Existing(roomGuesses, submission.turnIndex)
  /\ HasResult(Find(roomGuesses, submission.turnIndex))
  /\ Find(roomGuesses, submission.turnIndex).digits \in SelectedDigits

\* C12: after the removeGuess(t) of a rollback, the addGuess of an optimistic
\* guess at the same turn index t gives a list with exactly one entry at t,
\* the new pending guess itself, with no result field.
C12_RemoveThenAddIsFresh ==
  [][RollbackStep =>
       \A d \in SelectedDigits :
         LET t == submission.turnIndex
             after == addGuess(roomGuesses', newGuess(t, d))
         IN  /\ Cardinality({ i \in 1..Len(after) : after[i].turnIndex = t }) = 1
             /\ Find(after, t) = newGuess(t, d)
             /\ ~Has(Find(after, t), "result")]_vars

\* a rollback has just removed the guess of turn 1 and left the guess of
\* turn 0: the next optimistic guess is added at turn 1 again
C12_Witness ==
  /\ toastTitle = catchToast
  /\ Len(roomGuesses) = 1
  /\ roomGuesses[1].turnIndex = 0

\* who the local player is in the active room, by the room's record on
\* chain, and who is to move at a turn index
LocalPlayerIsCreator == ChainCreator(currentRoomId) = PlayerAddress
CreatorToMove(turnIndex) == turnIndex % 2 = 0
InSeq(g, list) == \E i \in 1..Len(list) : list[i] = g

\* C13: while the screen shows a room, every guess of the list is in exactly
\* one of playerGuesses and opponentGuesses, and it is in the creator's
\* part (the local player's when the local player created the room, the
\* opponent's otherwise) exactly when its turn index is even.
C13_ParityPartition ==
  (currentRoomId # NoRoom /\ roomData # Undefined) =>
    \A i \in 1..Len(roomGuesses) :
      LET g == roomGuesses[i]
          mine == InSeq(g, playerGuesses)
          theirs == InSeq(g, opponentGuesses)
      IN  /\ mine # theirs
          /\ (IF LocalPlayerIsCreator THEN mine ELSE theirs)
               <=> CreatorToMove(g.turnIndex)

\* C14: a handleSubmit that adds and sends a guess does so at the turn index
\* equal to the number of guesses in the list, and the local player is the
\* player to move at that index: the creator when it is even, the opponent
\* when it is odd.
C14_SubmitOnlyOnOwnTurn ==
  [][\A d \in SelectedDigits :
       (handleSubmit(d) /\ submission'.pc = "sending") =>
         /\ submission'.turnIndex = Len(roomGuesses)
         /\ LocalPlayerIsCreator <=> CreatorToMove(submission'.turnIndex)]_vars

\* C15: stopListening, called while listening, clears the interval it holds
\* and leaves no timer live and the flag off; a timer callback that runs
\* while the flag is off starts no checkForNewEvents call and clears its
\* own timer.
C15_StopReleasesTimer ==
  [][/\ (stopListening /\ isListening) =>
          /\ pollInterval \notin timers'
          /\ timers' = {}
          /\ pollInterval' = NoTimer
          /\ ~isListening'
     /\ \A id \in TimerIds :
          (pollCallback(id) /\ ~isListening) =>
            /\ cycles' = cycles
            /\ id \notin timers']_vars

\* stopListening has released the timer and a callback that was queued
\* before is still to run
C15_Witness ==
  /\ ~isListening
  /\ pollInterval = NoTimer
  /\ timers = {}
  /\ due # {}

\* a checkForNewEvents call whose query failed
PollFailed == cycleBlockNumber(FALSE) \/ cycleQueryFilter(FALSE)

\* C16: a checkForNewEvents call whose getBlockNumber or queryFilter query
\* fails changes neither the listening flag nor the timer: a poller that
\* was listening is still listening with its interval live, so the next
\* tick starts the next cycle.
C16_PollFailureKeepsPolling ==
  [][PollFailed =>
       /\ isListening' = isListening
       /\ pollInterval' = pollInterval
       /\ timers' = timers
       /\ isListening => (pollInterval' \in timers' /\ isListening')]_vars

\* after a failed query the poller is listening, its timer is live and a
\* later cycle is under way
C16_Witness ==
  /\ warnings > 0
  /\ isListening
  /\ pollInterval \in timers
  /\ BagIn("getBlockNumber", cycles)

ReceiptWaitBusy == receiptWait.pc \in {"request", "sleep"}
ReceiptWaitOver == receiptWait.pc \in {"returned", "timeout", "threw"}

\* C17: a receipt wait that has begun ends: it never makes more than
\* maxAttempts = 30 receipt queries; it returns at the first query that
\* yields a receipt, all queries before it having yielded none; it ends
\* with the timeout error exactly when 30 queries yielded no receipt; and
\* a query that throws ends it at once.
C17_ReceiptWaitTerminates ==
  /\ [](receiptWait.pc # "idle" =>
          /\ receiptWait.queries <= maxAttempts
          /\ receiptWait.pc = "returned" =>
               (receiptWait.receipt
                /\ receiptWait.queries = receiptWait.attempts + 1)
          /\ receiptWait.pc = "timeout" =>
               (~receiptWait.receipt /\ receiptWait.queries = maxAttempts)
          /\ receiptWait.pc \in {"request", "sleep"} => ~receiptWait.receipt)
  /\ (ReceiptWaitBusy ~> ReceiptWaitOver)

\* a wait that found the receipt with its last, 30th query
C17_Witness ==
  /\ receiptWait.pc = "returned"
  /\ receiptWait.queries = maxAttempts

\* a later phase of the same room: one or more transitions of the contract
LaterPhase(from, to) ==
  \/ PhaseStep(from, to)
  \/ \E mid \in RoomPhase : PhaseStep(from, mid) /\ PhaseStep(mid, to)

\* C18: while the screen stays on one room, every reload that replaces the
\* room data held leaves the phase as it was or moves it to a later phase
\* (WAITING_FOR_JOIN -> IN_PROGRESS -> COMPLETED, CANCELLED from the first
\* two); it never moves it back.
C18_PhaseNeverRegresses ==
  [][(roomData # Undefined /\ roomData' # Undefined) =>
       \/ roomData'.phase = roomData.phase
       \/ LaterPhase(roomData.phase, roomData'.phase)]_vars

\* the wager texts of WagerInputs that denote an amount of at least
\* 0.0001 ETH
AtLeastMinimum ==
  { <<".", "5">>, <<"0", ".", "0", "0", "0", "1">>, <<"1", "e", "-", "3">> }
FourDistinctDigits(digits) ==
  /\ Len(digits) = 4
  /\ \A i \in 1..4 : IsDigitChar(digits[i])
  /\ \A i, j \in 1..4 : digits[i] = digits[j] => i = j

\* C19: a step of handleSubmit that adds an optimistic guess or begins to
\* send happens only with four chosen, pairwise distinct digits selected;
\* a step that begins a createRoom call happens only with a complete code
\* and a wager text denoting at least the minimum, and the call carries
\* that code and that wager.
C19_InvalidInputStaysLocal ==
  [][/\ (submitPressed /\ (roomGuesses' # roomGuesses
                           \/ submission'.pc = "sending"
                           \/ isSubmitting'))
          => FourDistinctDigits(selected)
     /\ (createRoomCall'.called /\ ~createRoomCall.called) =>
          /\ \A i \in 1..4 : IsDigitChar(vaultCode[i])
          /\ wager \in AtLeastMinimum
          /\ createRoomCall'.wager = wager
          /\ \A i \in 1..4 :
               toString(createRoomCall'.vaultCode[i]) = vaultCode[i]]_vars

\* handleCreateRoom has just refused a complete code with a wager below
\* the minimum: no createRoom call was made
C19_Witness ==
  /\ toastTitle = "Invalid input"
  /\ ~createRoomCall.called
  /\ isVaultComplete
  /\ wager = <<"0", ".", "0", "0", "0", "0", "9">>

C28_StaysDisconnected ==
  disconnected => (~connected /\ subAccount = NoAccount)

\* C22: a handleResultComputed call that updates the list for an event of
\* the active room keeps every entry of the list and leaves an entry at its
\* own turn index; and for every call still awaiting its read for another
\* turn index of that room, the list after that call's update, whether its
\* read succeeds or fails, holds the entries of both.
C22_NoLostUpdate ==
  [][\A event \in Events, fetched \in BOOLEAN :
       (handleResultComputed(event, fetched) /\ event.roomId = currentRoomId)
       => /\ \A t \in Turns :
               Existing(roomGuesses, t) => Existing(roomGuesses', t)
          /\ Existing(roomGuesses', event.turnIndex)
          /\ HasResult(Find(roomGuesses', event.turnIndex))
          /\ \A other \in Events, again \in BOOLEAN :
               (/\ BagIn(other, probeReads')
                /\ other.roomId = event.roomId
                /\ other.turnIndex # event.turnIndex)
               => LET final == mergeResult(roomGuesses', other, again)
                  IN  /\ Existing(final, event.turnIndex)
                      /\ HasResult(Find(final, event.turnIndex))
                      /\ Existing(final, other.turnIndex)
                      /\ HasResult(Find(final, other.turnIndex))]_vars

\* the results of turns 1 and 0 of the active room were merged in that
\* order: the read of the later event returned first
C22_Witness ==
  /\ currentRoomId # NoRoom
  /\ Len(roomGuesses) = 2
  /\ roomGuesses[1].turnIndex = 1
  /\ roomGuesses[2].turnIndex = 0
  /\ HasResult(roomGuesses[1])
  /\ HasResult(roomGuesses[2])
  /\ roomGuesses[1].result = ResultOf(ResultComputedEvent(currentRoomId, 1))
  /\ roomGuesses[2].result = ResultOf(ResultComputedEvent(currentRoomId, 0))

\* the digits of a guess: four, each 0-9, mutually distinct
ValidDigits(digits) ==
  /\ Len(digits) = 4
  /\ \A i \in 1..Len(digits) : \E d \in 0..9 : digits[i] = toString(d)
  /\ \A i, j \in 1..Len(digits) : digits[i] = digits[j] => i = j

\* C24: every guess in the list has four digits, each 0-9, all distinct.
C24_GuessDigitsValid ==
  \A i \in 1..Len(roomGuesses) : ValidDigits(roomGuesses[i].digits)

\* C25: a handleResultComputed call resuming for an event of a room that is
\* not the active room leaves the guess list unchanged.
C25_OnlyActiveRoomGuesses ==
  [][\A event \in Events, fetched \in BOOLEAN :
       (handleResultComputed(event, fetched) /\ event.roomId # currentRoomId)
       => roomGuesses' = roomGuesses]_vars

\* C26: when handleSubmit adds its optimistic guess, the list holds no entry
\* at the turn index it gives the guess (the number of guesses).
C26_SubmitIndexIsFree ==
  [][\A d \in SelectedDigits :
       (handleSubmit(d) /\ submission'.pc = "sending") =>
         /\ ~Existing(roomGuesses, currentTurnIndex)
         /\ roomGuesses' = Append(roomGuesses, newGuess(currentTurnIndex, d))]_vars

\* C23: a cycle whose getBlockNumber returned L asks for the blocks
\* max(0, L - 10)..L; the step that ends a cycle hands over exactly the
\* logs of those blocks, and no other step hands over a log: a log more
\* than 10 blocks behind L is not handed over and stays undispatched
\* unless some cycle's window held it.
C23_PollWindow ==
  [][/\ \A ok \in BOOLEAN :
          pollBlockNumber(ok) =>
            \A poll \in PollsAtQuery :
              (BagIn(poll, polls') /\ ~BagIn(poll, polls)) =>
                /\ poll.latestBlock = latestBlock
                /\ poll.fromBlock \in {0, latestBlock - lookback}
                /\ poll.fromBlock >= latestBlock - lookback
     /\ \A poll \in PollsAtQuery :
          pollQueryFilter(poll, TRUE) =>
            /\ lastDispatch'.blocks =
                 { b \in logs : b <= poll.latestBlock
                                /\ b + lookback >= poll.latestBlock }
            /\ dispatchedLogs' = dispatchedLogs \cup lastDispatch'.blocks
     /\ dispatchedLogs' # dispatchedLogs =>
          \E poll \in PollsAtQuery : pollQueryFilter(poll, TRUE)]_vars

\* a cycle has just ended whose window began after the block of a log
\* that was never dispatched: it handed over nothing
C23_Witness ==
  /\ lastDispatch.done
  /\ lastDispatch.blocks = {}
  /\ \E b \in logs : b < lastDispatch.fromBlock /\ b \notin dispatchedLogs

\* C30: a step that hands a log to a handler happens only while the poller
\* is listening.
C30_NoCallbackAfterStop ==
  [][lastDispatch'.blocks # {} => isListening]_vars

\* C29: at most one polling timer is live, and it is the one pollInterval
\* holds: while listening exactly that one, while not listening none;
\* initialize called while listening leaves the timers as they are, and
\* stopListening leaves none live.
C29_OnePollingTimer ==
  /\ [](/\ Cardinality(timers) <= 1
        /\ isListening => (pollInterval # NoTimer /\ timers = {pollInterval})
        /\ ~isListening => (timers = {} /\ pollInterval = NoTimer))
  /\ [][/\ (eventHandler_initialize /\ isListening) =>
             (timers' = timers /\ pollInterval' = pollInterval)
        /\ stopListening => timers' = {}]_vars

\* the poller was stopped and initialized again while a callback of the
\* first timer was still queued: the one live timer is the second
C29_Witness ==
  /\ isListening
  /\ pollInterval = 2
  /\ timers = {2}
  /\ 1 \in due

\* C27: on the join page, whenever roomValidation.isValid holds, the stored
\* room data is the room named by the text now in the room id field: the
\* field is not blank, and the data's creator and wager are those of the
\* room with that number, whichever check completed last.
C27_ValidMeansCurrentRoom ==
  (joinOpen /\ roomValidation.isValid) =>
    /\ ~blank(joinRoomId)
    /\ joinRoomData # null
    /\ joinRoomData.creator = getRoomMetadata(roomNumber(joinRoomId)).creator
    /\ joinRoomData.wager = getRoomMetadata(roomNumber(joinRoomId)).wager
====
